---- MODULE Spec2Model ----
(***************************************************************************)
(* Model of claude-stream-format (src/src/main.rs): a line-by-line         *)
(* transcoder from newline-delimited JSON records to short summary lines.  *)
(*                                                                         *)
(* A Rust String / &str is modelled as its UTF-8 encoding: a sequence of   *)
(* bytes (0..255).  s.len() is the number of bytes, and a slice &s[..n]    *)
(* panics unless n is a character boundary of s, as in the standard        *)
(* library.  A panic is the record Panic; it is an outcome of the program, *)
(* not an error of the model.                                              *)
(***************************************************************************)
EXTENDS Integers, Sequences, FiniteSets, TLC

VARIABLES
    pc,      \* position of the running code
    call,    \* arguments of the function under call (pure-function specifications)
    ret,     \* its outcome
    input,   \* main: the events the line source delivers, in order
    pos,     \* main: number of source events consumed so far
    line,    \* main: the line being processed
    out,     \* main: the formatted output of the line being processed
    sink     \* main: what has been done to stdout, in order

vars == <<pc, call, ret, input, pos, line, out, sink>>

NoValue == [kind |-> "none"]

----------------------------------------------------------------------------
(* Strings as UTF-8 byte sequences *)

\* bytes 0x80..0xBF continue a multi-byte character
IsContinuation(b) == b >= 128 /\ b <= 191

\* str::is_char_boundary: 0 and len are boundaries, and so is every index
\* whose byte does not continue a character (index is 0-based)
is_char_boundary(s, i) ==
    \/ i = 0
    \/ i = Len(s)
    \/ i < Len(s) /\ ~IsContinuation(s[i + 1])

\* number of characters (Unicode scalar values) of s
CharCount(s) == Cardinality({i \in 1..Len(s) : ~IsContinuation(s[i])})

\* byte offset at which the k-th character (0-based) starts, Len(s) when
\* s has no more than k characters
CharOffset(s, k) ==
    LET starts == {i \in 1..Len(s) : ~IsContinuation(s[i])}
        after  == {i \in starts : Cardinality({j \in starts : j < i}) >= k}
    IN  IF after = {} THEN Len(s)
        ELSE (CHOOSE i \in after : \A j \in after : i <= j) - 1

\* the first k characters of s
TakeChars(s, k) == SubSeq(s, 1, CharOffset(s, k))

RECURSIVE Rep(_, _)
Rep(ch, n) == IF n <= 0 THEN <<>> ELSE ch \o Rep(ch, n - 1)

RECURSIVE Concat(_)
Concat(ss) == IF ss = <<>> THEN <<>> ELSE Head(ss) \o Concat(Tail(ss))

Panic == [kind |-> "panic"]
Str(s) == [kind |-> "str", s |-> s]

Ellipsis == <<46, 46, 46>>              \* "..."
Placeholder == <<63>>                   \* "?"
Newline == <<10>>                       \* "\n"

----------------------------------------------------------------------------
(* fn truncate(s: &str, max_len: usize) -> String *)

\* &s[..n]: panics when n is past the end or inside a character
SliceTo(s, n) ==
    IF n >= 0 /\ n <= Len(s) /\ is_char_boundary(s, n)
    THEN Str(SubSeq(s, 1, n))
    ELSE Panic

truncate(s, max_len) ==
    IF Len(s) <= max_len
    THEN Str(s)
    ELSE LET head == SliceTo(s, max_len - 3)     \* usize: max_len < 3 overflows
         IN  IF max_len < 3 \/ head = Panic THEN Panic
             ELSE Str(head.s \o Ellipsis)

----------------------------------------------------------------------------
(* String literals of the source, as UTF-8 *)

S_assistant == <<97, 115, 115, 105, 115, 116, 97, 110, 116>>            \* "assistant"
S_result == <<114, 101, 115, 117, 108, 116>>                            \* "result"
S_text == <<116, 101, 120, 116>>                                        \* "text"
S_tool_use == <<116, 111, 111, 108, 95, 117, 115, 101>>                 \* "tool_use"
S_Read == <<82, 101, 97, 100>>                                          \* "Read"
S_Edit == <<69, 100, 105, 116>>                                         \* "Edit"
S_Write == <<87, 114, 105, 116, 101>>                                   \* "Write"
S_Bash == <<66, 97, 115, 104>>                                          \* "Bash"
S_Glob == <<71, 108, 111, 98>>                                          \* "Glob"
S_Grep == <<71, 114, 101, 112>>                                         \* "Grep"
S_TodoWrite == <<84, 111, 100, 111, 87, 114, 105, 116, 101>>            \* "TodoWrite"
S_Task == <<84, 97, 115, 107>>                                          \* "Task"

\* the text each format! / to_string literal puts before its argument
FmtRead == <<240, 159, 147, 150, 32, 82, 101, 97, 100, 58, 32>>         \* U+1F4D6 " Read: "
FmtEdit == <<226, 156, 143, 239, 184, 143, 32, 32, 69, 100, 105, 116, 58, 32>>
                                                                        \* U+270F U+FE0F "  Edit: "
\* Write rendered with the glyph of Read
FmtWrite_ReadGlyph == <<240, 159, 147, 150, 32, 87, 114, 105, 116, 101, 58, 32>>
FmtWrite == <<240, 159, 147, 157, 32, 87, 114, 105, 116, 101, 58, 32>>  \* U+1F4DD " Write: "
FmtBash == <<240, 159, 146, 187, 32, 66, 97, 115, 104, 58, 32>>         \* U+1F4BB " Bash: "
FmtGlob == <<240, 159, 148, 141, 32, 71, 108, 111, 98, 58, 32>>         \* U+1F50D " Glob: "
FmtGrep == <<240, 159, 148, 141, 32, 71, 114, 101, 112, 58, 32>>        \* U+1F50D " Grep: "
FmtTodoWrite == <<240, 159, 147, 139, 32, 84, 111, 100, 111, 87, 114, 105, 116, 101>>
                                                                        \* U+1F4CB " TodoWrite"
FmtTask == <<240, 159, 164, 150, 32, 84, 97, 115, 107, 58, 32>>         \* U+1F916 " Task: "
FmtOther == <<240, 159, 148, 167, 32>>                                  \* U+1F527 " "
FmtDone == <<226, 156, 133, 32, 68, 111, 110, 101, 58, 32>>             \* U+2705 " Done: "

BashMaxLen == 80
ResultMaxLen == 80

----------------------------------------------------------------------------
(* serde_json::Value.  Object keys are compared with literals only and are *)
(* kept as atoms; every string value is a byte sequence.                   *)

JNull == [t |-> "null"]
JBool(b) == [t |-> "bool", b |-> b]
JNum(n) == [t |-> "num", n |-> n]
JStr(s) == [t |-> "str", s |-> s]
JArr(a) == [t |-> "arr", a |-> a]
JObj(o) == [t |-> "obj", o |-> o]

None == [some |-> FALSE]
Some(v) == [some |-> TRUE, v |-> v]

\* Value::get(&str): a member of an object, None for anything else
get(v, key) ==
    IF v.t = "obj" /\ key \in DOMAIN v.o THEN Some(v.o[key]) ELSE None

\* Value::as_str
as_str(v) == IF v.t = "str" THEN Some(v.s) ELSE None

\* input.get(key).and_then(|v| v.as_str()).unwrap_or("?")
str_field(inp, key) ==
    LET f == get(inp, key)
        s == IF f.some THEN as_str(f.v) ELSE None
    IN  IF s.some THEN s.v ELSE Placeholder

----------------------------------------------------------------------------
(* fn format_tool_use(name: &str, input: &serde_json::Value) -> String *)

\* format!(literal "{}", arg) where arg may have panicked
Fmt(prefix, arg) == IF arg = Panic THEN Panic ELSE Str(prefix \o arg.s)

format_tool_use(name, inp) ==
    CASE name = S_Read  -> Fmt(FmtRead, Str(str_field(inp, "file_path")))
      [] name = S_Edit  -> Fmt(FmtEdit, Str(str_field(inp, "file_path")))
      [] name = S_Write -> Fmt(FmtWrite, Str(str_field(inp, "file_path")))
      [] name = S_Bash  -> Fmt(FmtBash, truncate(str_field(inp, "command"), BashMaxLen))
      [] name = S_Glob  -> Fmt(FmtGlob, Str(str_field(inp, "pattern")))
      [] name = S_Grep  -> Fmt(FmtGrep, Str(str_field(inp, "pattern")))
      [] name = S_TodoWrite -> Str(FmtTodoWrite)
      [] name = S_Task  -> Fmt(FmtTask, Str(str_field(inp, "description")))
      [] OTHER          -> Fmt(FmtOther, Str(name))

----------------------------------------------------------------------------
(* Decoding: the shapes #[derive(Deserialize)] accepts for a JSON value.   *)
(* The values of the model are scalars and objects at the places where a   *)
(* struct or an enum is expected.                                          *)

Err == [ok |-> FALSE]
Ok(v) == [ok |-> TRUE, v |-> v]

Text(text) == [variant |-> "Text", text |-> text]
ToolUse(name, inp) == [variant |-> "ToolUse", name |-> name, input |-> inp]
Other == [variant |-> "Other"]

HasStr(v, key) == key \in DOMAIN v.o /\ v.o[key].t = "str"

\* enum ContentBlock, #[serde(tag = "type")], with #[serde(other)] Other
decode_ContentBlock(v) ==
    IF v.t # "obj" THEN Err
    ELSE IF ~HasStr(v, "type") THEN Err
    ELSE IF v.o["type"].s = S_text THEN
        IF HasStr(v, "text") THEN Ok(Text(v.o["text"].s)) ELSE Err
    ELSE IF v.o["type"].s = S_tool_use THEN
        IF HasStr(v, "name") /\ "input" \in DOMAIN v.o
        THEN Ok(ToolUse(v.o["name"].s, v.o["input"]))
        ELSE Err
    ELSE Ok(Other)

\* struct AssistantMessage { content: Vec<ContentBlock> }
decode_AssistantMessage(v) ==
    IF v.t # "obj" THEN Err
    ELSE IF "content" \notin DOMAIN v.o THEN Err
    ELSE IF v.o["content"].t # "arr" THEN Err
    ELSE LET blocks == [i \in 1..Len(v.o["content"].a) |->
                            decode_ContentBlock(v.o["content"].a[i])]
         IN  IF \E i \in DOMAIN blocks : ~blocks[i].ok THEN Err
             ELSE Ok([content |-> [i \in DOMAIN blocks |-> blocks[i].v]])

decode_String(v) == IF v.t = "str" THEN Ok(v.s) ELSE Err

\* an Option<T> field: a missing member and null are None
IsAbsent(v, key) == key \notin DOMAIN v.o \/ v.o[key] = JNull
Optional(d) == IF d.ok THEN Ok(Some(d.v)) ELSE Err

\* struct StreamMessage { type: String, message: Option<..>, result: Option<String> }
decode_StreamMessage(v) ==
    IF v.t # "obj" THEN Err
    ELSE IF ~HasStr(v, "type") THEN Err
    ELSE LET m == IF IsAbsent(v, "message") THEN Ok(None)
                  ELSE Optional(decode_AssistantMessage(v.o["message"]))
             r == IF IsAbsent(v, "result") THEN Ok(None)
                  ELSE Optional(decode_String(v.o["result"]))
         IN  IF ~m.ok \/ ~r.ok THEN Err
             ELSE Ok([msg_type |-> v.o["type"].s, message |-> m.v, result |-> r.v])

\* A line of input is text that is not JSON, or the JSON value it encodes
NotJson == [json |-> FALSE]
Json(v) == [json |-> TRUE, v |-> v]

\* serde_json::from_str::<StreamMessage>(line)
from_str(l) == IF l.json THEN decode_StreamMessage(l.v) ELSE Err

----------------------------------------------------------------------------
(* str::trim: strips leading and trailing characters with the Unicode      *)
(* White_Space property                                                    *)

\* the character starting at byte i (1-based) of s is White_Space
IsWhiteAt(s, i) ==
    LET b1 == s[i]
        b2 == IF i + 1 <= Len(s) THEN s[i + 1] ELSE 0
        b3 == IF i + 2 <= Len(s) THEN s[i + 2] ELSE 0
    IN  \/ b1 \in 9..13 \/ b1 = 32                            \* U+0009..U+000D, U+0020
        \/ b1 = 194 /\ b2 \in {133, 160}                     \* U+0085, U+00A0
        \/ b1 = 225 /\ b2 = 154 /\ b3 = 128                  \* U+1680
        \/ b1 = 226 /\ b2 = 128 /\ b3 \in (128..138) \cup {168, 169, 175}
                                                             \* U+2000..U+200A, U+2028/9, U+202F
        \/ b1 = 226 /\ b2 = 129 /\ b3 = 159                  \* U+205F
        \/ b1 = 227 /\ b2 = 128 /\ b3 = 128                  \* U+3000

trim(s) ==
    LET starts == {i \in 1..Len(s) : ~IsContinuation(s[i])}
        keep   == {i \in starts : ~IsWhiteAt(s, i)}
    IN  IF keep = {} THEN <<>>
        ELSE LET first == CHOOSE i \in keep : \A j \in keep : i <= j
                 last  == CHOOSE i \in keep : \A j \in keep : j <= i
                 later == {i \in starts : i > last}
                 stop  == IF later = {} THEN Len(s)
                          ELSE (CHOOSE i \in later : \A j \in later : i <= j) - 1
             IN  SubSeq(s, first, stop)

----------------------------------------------------------------------------
(* fn process_line(line: &str) -> Option<String> *)

\* [String]::join(sep)
RECURSIVE join(_, _)
join(ss, sep) ==
    IF ss = <<>> THEN <<>>
    ELSE IF Len(ss) = 1 THEN ss[1]
    ELSE ss[1] \o sep \o join(Tail(ss), sep)

\* what one iteration of the loop over message.content pushes to output:
\* no string, one string, or a panic inside format_tool_use
\* every text block is pushed, blank or not
push_block_NoTrim(block) ==
    CASE block.variant = "Text" -> <<Str(block.text)>>
      [] block.variant = "ToolUse" ->
            <<format_tool_use(block.name, block.input)>>
      [] OTHER -> <<>>

push_block(block) ==
    CASE block.variant = "Text" ->
            IF trim(block.text) # <<>> THEN <<Str(block.text)>> ELSE <<>>
      [] block.variant = "ToolUse" ->
            <<format_tool_use(block.name, block.input)>>
      [] OTHER -> <<>>

process_line(l) ==
    LET d == from_str(l)
    IN  IF ~d.ok THEN None                                   \* .ok()?
        ELSE LET msg == d.v
             IN  IF msg.msg_type = S_assistant THEN
                     IF ~msg.message.some THEN None          \* msg.message?
                     ELSE LET content == msg.message.v.content
                              pushed == Concat([i \in 1..Len(content) |->
                                                    push_block(content[i])])
                          IN  IF \E i \in 1..Len(pushed) : pushed[i] = Panic THEN Panic
                              ELSE IF pushed = <<>> THEN None
                              ELSE Some(join([i \in 1..Len(pushed) |-> pushed[i].s],
                                             Newline))
                 ELSE IF msg.msg_type = S_result THEN
                     IF ~msg.result.some THEN None           \* msg.result?
                     ELSE LET shown == truncate(msg.result.v, ResultMaxLen)
                          IN  IF shown = Panic THEN Panic
                              ELSE Some(FmtDone \o shown.s)
                 ELSE None

----------------------------------------------------------------------------
(* Bounded input domains *)

MaxChars == 4        \* truncate: characters per string
MaxMaxLen == 6       \* truncate: largest max_len
Over == 2            \* long texts: bytes past the limit of 80
MaxBlocks == 2       \* content blocks per assistant message
MaxLines == 2        \* source events per run of main

CharA == <<97>>                         \* "a"
CharEAcute == <<195, 169>>              \* U+00E9, 2 bytes
CharEuro == <<226, 130, 172>>           \* U+20AC, 3 bytes
Alphabet == {CharA, CharEAcute, CharEuro}

RECURSIVE StringsUpTo(_)
StringsUpTo(n) ==
    IF n = 0 THEN {<<>>}
    ELSE LET shorter == StringsUpTo(n - 1)
         IN  shorter \cup {s \o c : s \in shorter, c \in Alphabet}

\* prefix p, then as many copies of character c as fit in n bytes
Fill(p, c, n) == p \o Rep(c, (n - Len(p)) \div Len(c))

LongTexts ==
    {Fill(p, c, n) : p \in {<<>>, CharA}, c \in {CharA, CharEAcute},
                     n \in (BashMaxLen - 1)..(BashMaxLen + Over)}

T_Hello == <<72, 101, 108, 108, 111, 32, 119, 111, 114, 108, 100>>      \* "Hello world"
T_ls == <<108, 115, 32, 45, 108, 97>>                                   \* "ls -la"
T_path == <<47, 115, 114, 99, 47, 109, 97, 105, 110, 46, 114, 115>>     \* "/src/main.rs"
T_padded == <<32, 97, 10>>                                              \* " a\n"
T_blank == <<32, 10, 194, 160>>                                         \* " \n" U+00A0
S_WebFetch == <<87, 101, 98, 70, 101, 116, 99, 104>>                    \* "WebFetch"
S_unknown == <<117, 110, 107, 110, 111, 119, 110>>                      \* "unknown"
S_image == <<105, 109, 97, 103, 101>>                                   \* "image"

ShortTexts == {<<>>, T_Hello, T_ls, T_path, CharEAcute}

Obj1(k, v) == JObj(k :> v)
Obj2(k1, v1, k2, v2) == JObj(k1 :> v1 @@ k2 :> v2)
Obj3(k1, v1, k2, v2, k3, v3) == JObj(k1 :> v1 @@ k2 :> v2 @@ k3 :> v3)
EmptyObj == JObj(<<>>)

KnownTools == {S_Read, S_Edit, S_Write, S_Bash, S_Glob, S_Grep, S_TodoWrite, S_Task}
ToolNames == KnownTools \cup {S_WebFetch, <<>>}
FieldKeys == {"file_path", "command", "pattern", "description", "url"}
NonStrings == {JNull, JNum(7), JBool(TRUE), JArr(<<>>), EmptyObj}
ToolInputs ==
    NonStrings \cup {JStr(T_ls)}
    \cup {Obj1(k, v) : k \in FieldKeys,
                       v \in NonStrings \cup {JStr(s) : s \in ShortTexts \cup LongTexts}}

\* content blocks, well-formed and not
TextBlock(s) == Obj2("type", JStr(S_text), "text", JStr(s))
ToolBlock(name, inp) == Obj3("type", JStr(S_tool_use), "name", JStr(name), "input", inp)
PanicText == Fill(<<>>, CharEAcute, BashMaxLen + Over)
Blocks ==
    {TextBlock(s) : s \in {<<>>, T_blank, T_padded, T_Hello, CharEAcute}}
    \cup {ToolBlock(S_Read, Obj1("file_path", JStr(T_path))),
          ToolBlock(S_Bash, Obj1("command", JStr(T_ls))),
          ToolBlock(S_Bash, Obj1("command", JStr(Rep(CharA, BashMaxLen + Over)))),
          ToolBlock(S_Bash, Obj1("command", JStr(PanicText))),
          ToolBlock(S_Glob, JNull),
          ToolBlock(S_TodoWrite, Obj1("todos", JArr(<<>>))),
          ToolBlock(S_WebFetch, Obj1("url", JStr(T_path)))}
    \cup {Obj1("type", JStr(S_image)),                         \* an unknown block type
          Obj2("type", JStr(S_image), "text", JNum(7)),
          Obj1("type", JStr(S_text)),                          \* text is missing
          Obj2("type", JStr(S_text), "text", JNum(7)),         \* text is not a string
          Obj2("type", JStr(S_tool_use), "name", JStr(S_Read)),\* input is missing
          Obj1("text", JStr(T_Hello)),                         \* no discriminator
          JNum(7)}

RECURSIVE SeqsUpTo(_, _)
SeqsUpTo(S, n) ==
    IF n = 0 THEN {<<>>}
    ELSE LET shorter == SeqsUpTo(S, n - 1)
         IN  shorter \cup {Append(q, x) : q \in shorter, x \in S}

Assistant(message) == Json(Obj2("type", JStr(S_assistant), "message", message))
Content(blocks) == Obj1("content", JArr(blocks))
Result(r) == Json(Obj2("type", JStr(S_result), "result", r))

Lines ==
    {NotJson, Json(JNum(7)), Json(JStr(T_Hello)), Json(EmptyObj),
     Json(Obj1("type", JNum(7))),
     Json(Obj1("type", JStr(S_assistant))),                    \* message is absent
     Json(Obj1("type", JStr(S_result))),                       \* result is absent
     Json(Obj2("type", JStr(S_unknown), "data", EmptyObj)),
     Json(Obj2("type", JStr(S_unknown), "result", JStr(T_Hello))),
     Json(Obj3("type", JStr(S_assistant), "message", Content(<<TextBlock(T_Hello)>>),
               "result", JNum(7))),
     Json(Obj3("type", JStr(S_result), "message", JStr(T_Hello),
               "result", JStr(T_Hello)))}
    \cup {Assistant(m) : m \in {JNull, JStr(T_Hello), EmptyObj,
                               Obj1("content", JStr(T_Hello)), Obj1("content", JNull)}}
    \cup {Assistant(Content(b)) : b \in SeqsUpTo(Blocks, MaxBlocks)}
    \cup {Result(r) : r \in {JNull, JNum(7), EmptyObj}
                            \cup {JStr(s) : s \in ShortTexts \cup LongTexts}}

\* the lines the main loop is run on
MainLines ==
    {NotJson,
     Json(Obj1("type", JNum(7))),
     Json(Obj2("type", JStr(S_unknown), "data", EmptyObj)),
     Assistant(Content(<<TextBlock(T_Hello)>>)),
     Assistant(Content(<<TextBlock(T_blank), Obj1("type", JStr(S_image))>>)),
     Assistant(Content(<<ToolBlock(S_Read, Obj1("file_path", JStr(T_path))),
                         TextBlock(T_padded)>>)),
     Assistant(Content(<<ToolBlock(S_Bash, Obj1("command", JStr(PanicText)))>>)),
     Result(JStr(T_ls)),
     Result(JStr(Rep(CharA, ResultMaxLen + Over)))}

\* what stdin.lock().lines() yields: Ok(line) or Err(_)
ReadOk(l) == [ok |-> TRUE, line |-> l]
ReadErr == [ok |-> FALSE]
SourceEvents == {ReadOk(l) : l \in MainLines} \cup {ReadErr}

----------------------------------------------------------------------------
(* The pure functions, each called once on an input of its domain *)

MainIdle == input = <<>> /\ pos = 0 /\ line = NoValue /\ out = NoValue /\ sink = <<>>

Outcome(r) == IF r = Panic THEN "panicked" ELSE "returned"

InitTruncate ==
    /\ pc = "truncate"
    /\ call \in [s : StringsUpTo(MaxChars), max_len : 3..MaxMaxLen]
    /\ ret = NoValue
    /\ MainIdle

CallTruncate ==
    /\ pc = "truncate"
    /\ ret' = truncate(call.s, call.max_len)
    /\ pc' = Outcome(ret')
    /\ UNCHANGED <<call, input, pos, line, out, sink>>

NextTruncate == CallTruncate

SpecTruncate == InitTruncate /\ [][NextTruncate]_vars

InitFormat ==
    /\ pc = "format_tool_use"
    /\ call \in [name : ToolNames, input : ToolInputs]
    /\ ret = NoValue
    /\ MainIdle

CallFormatToolUse ==
    /\ pc = "format_tool_use"
    /\ ret' = format_tool_use(call.name, call.input)
    /\ pc' = Outcome(ret')
    /\ UNCHANGED <<call, input, pos, line, out, sink>>

NextFormat == CallFormatToolUse

SpecFormat == InitFormat /\ [][NextFormat]_vars

InitLine ==
    /\ pc = "process_line"
    /\ call \in [line : Lines]
    /\ ret = NoValue
    /\ MainIdle

CallProcessLine ==
    /\ pc = "process_line"
    /\ ret' = process_line(call.line)
    /\ pc' = Outcome(ret')
    /\ UNCHANGED <<call, input, pos, line, out, sink>>

NextLine == CallProcessLine

SpecLine == InitLine /\ [][NextLine]_vars

----------------------------------------------------------------------------
(* fn main(): the loop over stdin.lock().lines() *)

Init ==
    /\ pc = "read"
    /\ input \in SeqsUpTo(SourceEvents, MaxLines)
    /\ pos = 0
    /\ line = NoValue
    /\ out = NoValue
    /\ sink = <<>>
    /\ call = NoValue
    /\ ret = NoValue

\* a read error ends the loop
SkipReadError_Halts ==
    /\ pc = "read"
    /\ pos < Len(input)
    /\ ~input[pos + 1].ok
    /\ pos' = pos + 1
    /\ pc' = "done"
    /\ UNCHANGED <<call, ret, input, line, out, sink>>

\* Err(_) => continue
SkipReadError ==
    /\ pc = "read"
    /\ pos < Len(input)
    /\ ~input[pos + 1].ok
    /\ pos' = pos + 1
    /\ UNCHANGED <<pc, call, ret, input, line, out, sink>>

\* Ok(l) => l
ReadLine ==
    /\ pc = "read"
    /\ pos < Len(input)
    /\ input[pos + 1].ok
    /\ pos' = pos + 1
    /\ line' = input[pos + 1].line
    /\ pc' = "process"
    /\ UNCHANGED <<call, ret, input, out, sink>>

\* the iterator ends: main returns
EndOfInput ==
    /\ pc = "read"
    /\ pos = Len(input)
    /\ pc' = "done"
    /\ UNCHANGED <<call, ret, input, pos, line, out, sink>>

\* if let Some(output) = process_line(&line)
ProcessLine ==
    /\ pc = "process"
    /\ LET r == process_line(line)
       IN  IF r = Panic THEN pc' = "panicked" /\ out' = out
           ELSE IF r.some THEN pc' = "write" /\ out' = r.v
           ELSE pc' = "read" /\ out' = out
    /\ UNCHANGED <<call, ret, input, pos, line, sink>>

\* let _ = writeln!(stdout, "{}", output): the outcome is dropped
WriteLine ==
    /\ pc = "write"
    /\ \E ok \in BOOLEAN :
          sink' = Append(sink, [op |-> "write", data |-> out \o Newline, ok |-> ok])
    /\ pc' = "flush"
    /\ UNCHANGED <<call, ret, input, pos, line, out>>

\* the line is written and never flushed
Flush_Dropped ==
    /\ pc = "flush"
    /\ pc' = "read"
    /\ UNCHANGED <<call, ret, input, pos, line, out, sink>>

\* let _ = stdout.flush(): the outcome is dropped
Flush ==
    /\ pc = "flush"
    /\ \E ok \in BOOLEAN :
          sink' = Append(sink, [op |-> "flush", data |-> <<>>, ok |-> ok])
    /\ pc' = "read"
    /\ UNCHANGED <<call, ret, input, pos, line, out>>

Next ==
    \/ SkipReadError
    \/ ReadLine
    \/ EndOfInput
    \/ ProcessLine
    \/ WriteLine
    \/ Flush

Spec == Init /\ [][Next]_vars

----------------------------------------------------------------------------
(* Truncation (SpecTruncate) *)

EndsWithEllipsis(s) == Len(s) >= 3 /\ SubSeq(s, Len(s) - 2, Len(s)) = Ellipsis

\* the truncation rule with lengths counted in bytes
TruncatedByBytes(s, n, r) ==
    IF Len(s) <= n THEN r = s
    ELSE r = SubSeq(s, 1, n - 3) \o Ellipsis /\ Len(r) = n /\ EndsWithEllipsis(r)

\* the truncation rule with lengths counted in characters
TruncatedByChars(s, n, r) ==
    IF CharCount(s) <= n THEN r = s
    ELSE r = TakeChars(s, n - 3) \o Ellipsis /\ CharCount(r) = n /\ EndsWithEllipsis(r)

\* C1: for every s and max_len >= 3, truncate returns s unchanged when its
\* length is <= max_len and otherwise the first max_len - 3 characters followed
\* by "...", of length exactly max_len.  Either way of counting the length
\* (bytes or characters) is accepted.
C1_TruncateContract ==
    pc # "truncate" =>
        /\ ret # Panic
        /\ \/ TruncatedByBytes(call.s, call.max_len, ret.s)
           \/ TruncatedByChars(call.s, call.max_len, ret.s)

\* C2: truncate never fails, whatever the string (multi-byte characters
\* included) and whatever max_len >= 3.
C2_TruncateNeverPanics == pc # "panicked"

----------------------------------------------------------------------------
(* Tool rendering (SpecFormat) *)

\* the marker that starts a rendered line: the bytes before its first space
MarkerOf(s) ==
    LET spaces == {i \in 1..Len(s) : s[i] = 32}
    IN  IF spaces = {} THEN s
        ELSE SubSeq(s, 1, (CHOOSE i \in spaces : \A j \in spaces : i <= j) - 1)

\* the entry of the dispatch table a tool name selects
Entry(name) == IF name \in KnownTools THEN name ELSE <<>>

\* the rendered line of the call that returned and the line another entry
\* renders for the same input start with different markers
MarkersDiffer(other) ==
    LET r == format_tool_use(other, call.input)
    IN  r # Panic => MarkerOf(ret.s) # MarkerOf(r.s)

\* C3 as stated: any two different entries of the dispatch table render with
\* different markers.
C3_DistinctMarkers ==
    pc = "returned" =>
        \A other \in ToolNames :
            Entry(other) # Entry(call.name) => MarkersDiffer(other)

\* C3 amended: any two different entries render with different markers, except
\* Glob and Grep, which share one marker and differ in the label after it.
C3_DistinctMarkersButGlobGrep ==
    pc = "returned" =>
        /\ \A other \in ToolNames :
              /\ Entry(other) # Entry(call.name)
              /\ {other, call.name} # {S_Glob, S_Grep}
              => MarkersDiffer(other)
        /\ call.name \in {S_Glob, S_Grep} =>
              \A other \in {S_Glob, S_Grep} \ {call.name} :
                  LET r == format_tool_use(other, call.input)
                  IN  MarkerOf(r.s) = MarkerOf(ret.s) /\ r.s # ret.s

C3_Witness ==
    /\ pc = "returned"
    /\ call.name = S_Grep
    /\ call.input = Obj1("pattern", JStr(T_ls))

\* the field a tool renders, none for TodoWrite and the fallback
FieldOf(name) ==
    CASE name \in {S_Read, S_Edit, S_Write} -> "file_path"
      [] name = S_Bash -> "command"
      [] name \in {S_Glob, S_Grep} -> "pattern"
      [] name = S_Task -> "description"
      [] OTHER -> "none"

LabelOf(name) ==
    CASE name = S_Read -> FmtRead   [] name = S_Edit -> FmtEdit
      [] name = S_Write -> FmtWrite [] name = S_Bash -> FmtBash
      [] name = S_Glob -> FmtGlob   [] name = S_Grep -> FmtGrep
      [] name = S_Task -> FmtTask   [] OTHER -> FmtOther

FieldIsString(inp, key) ==
    inp.t = "obj" /\ key \in DOMAIN inp.o /\ inp.o[key].t = "str"

\* C6: format_tool_use returns a rendering for every name and every input:
\* "?" stands for a missing or invalid field, TodoWrite is a fixed label, and
\* any other name renders as the generic marker and the name.
C6_RenderingTotal ==
    pc # "format_tool_use" =>
        /\ ret # Panic
        /\ call.name = S_TodoWrite => ret.s = FmtTodoWrite
        /\ call.name \notin KnownTools => ret.s = FmtOther \o call.name
        /\ /\ FieldOf(call.name) # "none"
           /\ ~FieldIsString(call.input, FieldOf(call.name))
           => ret.s = LabelOf(call.name) \o Placeholder

----------------------------------------------------------------------------
(* Lines (SpecLine) *)

\* every character of s is white space
AllWhite(s) == \A i \in 1..Len(s) : IsContinuation(s[i]) \/ IsWhiteAt(s, i)

Decoded == from_str(call.line)

IsAssistant == Decoded.ok /\ Decoded.v.msg_type = S_assistant

\* what a decoded content block contributes to the output, by the rules of
\* the formatter
Contribution(block) ==
    CASE block.variant = "Text" ->
            IF AllWhite(block.text) THEN <<>> ELSE <<block.text>>
      [] block.variant = "ToolUse" -> <<format_tool_use(block.name, block.input).s>>
      [] block.variant = "Other" -> <<>>

Contributions(blocks) == Concat([i \in 1..Len(blocks) |-> Contribution(blocks[i])])

\* C4: for every assistant message that decodes, the output is the
\* contributions of its blocks in order, joined by newlines: a text that is
\* not blank verbatim, a tool_use as its rendering, Other nothing.
C4_AssistantOutput ==
    (pc # "process_line" /\ IsAssistant /\ Decoded.v.message.some) =>
        /\ ret # Panic
        /\ LET lines == Contributions(Decoded.v.message.v.content)
           IN  lines # <<>> => ret = Some(join(lines, Newline))

\* an assistant message with no message field, or whose blocks are all blank
\* texts and Other
IsQuietAssistant ==
    /\ IsAssistant
    /\ Decoded.v.message.some =>
          \A i \in 1..Len(Decoded.v.message.v.content) :
              LET block == Decoded.v.message.v.content[i]
              IN  \/ block.variant = "Other"
                  \/ block.variant = "Text" /\ AllWhite(block.text)

\* C5: an assistant message that is empty, holds only blank texts and Other
\* blocks, or has no message field yields no result; and no line yields the
\* empty string.
C5_QuietAssistantIsAbsent ==
    pc # "process_line" =>
        /\ IsQuietAssistant => ret = None
        /\ ret # Some(<<>>)

C5_Witness ==
    /\ pc = "returned"
    /\ call.line = Assistant(Content(<<TextBlock(T_blank), Obj1("type", JStr(S_image))>>))
    /\ ret = None

\* the text shown for a result of at most n (bytes or characters) is the
\* result; a longer one is shown in exactly n, ending with "..."
ShownWithin(s, n, r) ==
    \/ IF Len(s) <= n THEN r = s ELSE Len(r) = n /\ EndsWithEllipsis(r)
    \/ IF CharCount(s) <= n THEN r = s ELSE CharCount(r) = n /\ EndsWithEllipsis(r)

\* C7: a result message with a result yields "Done: " and the result within
\* 80; one without a result, and any kind other than assistant and result,
\* yields nothing.
C7_ResultOutput ==
    (pc # "process_line" /\ Decoded.ok) =>
        IF Decoded.v.msg_type = S_result /\ Decoded.v.result.some THEN
            /\ ret # Panic
            /\ ret.some
            /\ SubSeq(ret.v, 1, Len(FmtDone)) = FmtDone
            /\ ShownWithin(Decoded.v.result.v, ResultMaxLen,
                           SubSeq(ret.v, Len(FmtDone) + 1, Len(ret.v)))
        ELSE Decoded.v.msg_type # S_assistant => ret = None

----------------------------------------------------------------------------
(* The main loop (Spec) *)

\* the operations on stdout so far, without their outcomes
SinkOps == [i \in 1..Len(sink) |-> [op |-> sink[i].op, data |-> sink[i].data]]

WriteOf(text) == [op |-> "write", data |-> text \o Newline]
FlushOp == [op |-> "flush", data |-> <<>>]

\* the formatted result of a source event: Some only for a line that was
\* read and formats to a result
ResultOf(e) ==
    IF ~e.ok THEN None
    ELSE LET r == process_line(e.line)
         IN  IF r = Panic THEN None ELSE r

\* one write of the result and its newline, then a flush, for each event
\* with a result, in order
RECURSIVE ExpectedOps(_)
ExpectedOps(events) ==
    IF events = <<>> THEN <<>>
    ELSE LET r == ResultOf(Head(events))
         IN  (IF r.some THEN <<WriteOf(r.v), FlushOp>> ELSE <<>>)
             \o ExpectedOps(Tail(events))

\* the events whose processing is over
Completed ==
    SubSeq(input, 1, IF pc \in {"process", "write", "flush", "panicked"}
                     THEN pos - 1 ELSE pos)

Fails(e) == ~e.ok \/ ~from_str(e.line).ok

Surviving(events) == SelectSeq(events, LAMBDA e : ~Fails(e))

\* C9: a line that cannot be read, a line that does not decode and a failed
\* write are skipped and the loop goes on to the next line; what is written
\* is what the input without the failing lines gets written.
C9_FailuresAreSkipped ==
    /\ [][/\ (pc = "read" /\ pos < Len(input) /\ ~input[pos + 1].ok)
                => (pc' = "read" /\ pos' = pos + 1 /\ sink' = sink)
          /\ (pc = "process" /\ ~from_str(line).ok)
                => (pc' = "read" /\ pos' = pos /\ sink' = sink)
          /\ (pc = "write")
                => (pc' = "flush" /\ pos' = pos)
          /\ (pc = "flush")
                => (pc' = "read" /\ pos' = pos)]_vars
    /\ [](pc \in {"read", "done"} =>
              SinkOps = ExpectedOps(Surviving(SubSeq(input, 1, pos))))

C9_Witness ==
    /\ pc = "done"
    /\ Len(input) = 2
    /\ Fails(input[1])
    /\ ResultOf(input[2]).some
    /\ Len(sink) = 2
    /\ ~sink[1].ok

\* C10: the process stops only when the input source is exhausted.
C10_StopsOnlyAtEndOfInput ==
    pc \in {"done", "panicked"} => pos = Len(input)

====
